---- MODULE Spec2Model ----
(***************************************************************************)
(* Model of the Procfile.dev supervisor of railsup, src/src/cli/dev.rs:    *)
(* run_with_procfile (spawn loop, interrupt handler, reader threads,       *)
(* control loop, join phase) and graceful_shutdown.                        *)
(*                                                                         *)
(* The main thread is one sequential process (pc, i).  The children, the   *)
(* reader threads, the interrupt handler and the clock are the             *)
(* environment and interleave with it at every step.                       *)
(*                                                                         *)
(* Three specifications: Spec (FairSpec with scheduling) is the           *)
(* supervisor with output left out; OutSpec is the uninterrupted run with  *)
(* the children's output, the reader threads' printing and the terminal    *)
(* status; PortSpec is the web rule of the spawn loop                      *)
(* (replace_port_in_command) applied to one entry.                         *)
(*                                                                         *)
(* Build: the unix variant of terminate_process (dev.rs:308-314); the      *)
(* program supports macOS and Linux only (platform.rs:13-16).              *)
(*                                                                         *)
(* Library behaviour the model relies on:                                  *)
(*  - dropping a std::process::Child neither kills nor waits for it;       *)
(*  - Child::try_wait caches the exit status it reaps; once cached,        *)
(*    try_wait returns it again and Child::kill sends no signal;           *)
(*  - waitpid(WNOHANG) on a live child of the caller returns 0 (Ok(None)); *)
(*    it fails (ECHILD) only for a child that no longer exists, so an Err  *)
(*    result is possible only for a child that has exited;                 *)
(*  - a pipe reaches end-of-stream when its owning process has exited.     *)
(***************************************************************************)
EXTENDS Integers, FiniteSets, Sequences, TLC

\* Largest number of Procfile entries of a run.
MaxProcs == 2

\* Largest number of lines the children of a run write in all.
MaxLines == 2

\* Largest number of lines of a Procfile text.
MaxFileLines == 2

\* Largest number of words of a command to wrap.
MaxWords == 3

\* Largest number of flags in a command.
MaxParts == 2

\* SHUTDOWN_TIMEOUT, in seconds.
SHUTDOWN_TIMEOUT == 3

Procs == 1..MaxProcs
Streams == {"stdout", "stderr"}

VARIABLES
    n,                \* processes.len(): entries parse_procfile finds
    pc,               \* position of the main thread
    i,                \* index of the loop the main thread is in
    child,            \* OS state of each child process
    reaped,           \* Child handle holds a cached exit status
    reader,           \* reader[c][s]: state of the reader thread of pipe s
    handler,          \* result of ctrlc::set_handler
    running,          \* the AtomicBool `running`
    allDone,          \* the local `all_done` of the current poll pass
    termCount,        \* SIGTERMs sent to each child's pid
    killCount,        \* SIGKILLs sent to each child's pid
    elapsed,          \* start.elapsed() in graceful_shutdown, in seconds
    result,           \* what run_with_procfile returned
    warnings,         \* ui::warn calls made by run_with_procfile
    visited,          \* history: supervisor states entered so far
    late,             \* history: an interrupt arrived with the flag already false
    tty,              \* what stdout().is_terminal() answers now
    colorsEnabled,    \* the local `colors_enabled`: {} until taken, then {b}
    colorUsed,        \* history: colour decisions of the tagged lines printed
    written,          \* history: written[c][s], lines child c wrote to pipe s
    pipe,             \* pipe[c][s]: lines in the pipe, not yet read
    emitted,          \* emitted[c][s]: lines printed for pipe s of child c
    procName,         \* name of the Procfile entry being prepared
    command,          \* its command as parsed, a sequence of characters
    port,             \* the `port` argument of run_with_procfile
    spawnCommand,     \* the command after the web rule
    prepared,         \* the web rule has been applied to this entry
    port2,            \* the port of a second rewriting of the same command
    again,            \* the command after the second rewriting
    preparedAgain,    \* the second rewriting has been applied
    content,          \* the text of a Procfile.dev, a sequence of characters
    processes,        \* what parse_procfile_content returned for it
    parsed,           \* the text has been parsed
    processes2,       \* what it returned for the re-serialized list
    reparsed,         \* the re-serialized list has been parsed
    command_string,   \* the argument of wrap_procfile_command
    optOut,           \* is_bundle_opt_out(): RAILSUP_NO_BUNDLE is 1
    hasCtx,           \* bundle_ctx is Some
    wrapResult,       \* what wrap_procfile_command returned
    wrapDone,         \* it has returned
    procNames,        \* procNames[c]: name of entry c of the parsed list
    rewritten         \* history: entries whose command went through the web rule

\* The output side: terminal, pipes, printed lines.
outv == <<tty, colorsEnabled, colorUsed, written, pipe, emitted>>

\* The preparation of one entry's command.
portv == <<procName, command, port, spawnCommand, prepared, port2, again,
           preparedAgain>>

\* The names of the entries and the web rule's record.
webv == <<procNames, rewritten>>

\* What only the specifications of single functions change.
\* The parsing of one Procfile text.
parsev == <<content, processes, parsed, processes2, reparsed>>

\* The bundle wrapping of one command.
wrapv == <<command_string, optOut, hasCtx, wrapResult, wrapDone>>

funv == <<portv, parsev, wrapv>>

\* The supervisor proper.
supv == <<n, pc, i, child, reaped, reader, handler, running, allDone,
          termCount, killCount, elapsed, result, warnings, visited, late>>

vars == <<supv, outv, webv, funv>>

Run == 1..n
Alive == {c \in Procs : child[c] = "alive"}
Exited(c) == child[c] = "exited"

\* The exit statuses try_wait can report: success, failure.
ExitStatuses == {"zero", "nonzero"}

\* The supervisor state (spec 4.5) the main thread is in.
SupStateOf(p, r) ==
    CASE p \in {"parse", "spawn", "register", "readers"} -> "Starting"
      [] p \in {"loop", "poll"} -> "Running"
      [] p \in {"gs_term", "gs_clock", "gs_poll", "gs_timeout"}
            -> "ShuttingDownGraceful"
      [] p = "gs_kill" -> "ShuttingDownForced"
      [] p = "join" -> "Done"
      [] p = "returned" -> IF r = "ok" THEN "Done" ELSE "Failed"

SupState == SupStateOf(pc, result)

\* What a child can write: a complete line, a last line without newline, a
\* line that is not valid UTF-8.
LineKinds == {"line", "partial", "bad"}

NoLines == [c \in Procs |-> [s \in Streams |-> <<>>]]

\* The state at the call of run_with_procfile, stdout a terminal or not.
Start(ttys) ==
    /\ tty \in ttys
    /\ colorsEnabled = {}
    /\ colorUsed = {}
    /\ written = NoLines
    /\ pipe = NoLines
    /\ emitted = NoLines
    /\ n \in 0..MaxProcs
    /\ pc = "parse"
    /\ i = 1
    /\ child = [c \in Procs |-> "unspawned"]
    /\ reaped = [c \in Procs |-> FALSE]
    /\ reader = [c \in Procs |-> [s \in Streams |-> "none"]]
    /\ handler = "none"
    /\ running = TRUE
    /\ allDone = TRUE
    /\ termCount = [c \in Procs |-> 0]
    /\ killCount = [c \in Procs |-> 0]
    /\ elapsed = 0
    /\ result = "none"
    /\ warnings = 0
    /\ visited = {"Starting"}
    /\ late = FALSE

\* The characters of "web".
WebName == <<"w", "e", "b">>

\* The commands of the run are taken as given.
CommandsGiven ==
    /\ procName = WebName
    /\ command = <<>>
    /\ port = 0
    /\ spawnCommand = <<>>
    /\ prepared = FALSE
    /\ port2 = 0
    /\ again = <<>>
    /\ preparedAgain = FALSE

\* No Procfile text is looked at, no command is wrapped.
NoText ==
    /\ command_string = <<>>
    /\ optOut = FALSE
    /\ hasCtx = TRUE
    /\ wrapResult = <<>>
    /\ wrapDone = FALSE
    /\ content = <<>>
    /\ processes = <<>>
    /\ parsed = FALSE
    /\ processes2 = <<>>
    /\ reparsed = FALSE

OtherName == <<"c", "s", "s">>

\* A Procfile whose first entry is the only one named web.
OneWeb ==
    /\ procNames = [c \in Procs |-> IF c = 1 THEN WebName ELSE OtherName]
    /\ rewritten = {}

\* A run started from an interactive terminal.
Init == Start({TRUE}) /\ CommandsGiven /\ NoText /\ OneWeb

\* The main thread moves to position p (returning r if p = "returned").
Goto(p, r) ==
    /\ pc' = p
    /\ result' = r
    /\ visited' = visited \cup {SupStateOf(p, r)}

EmptyList_Never(k) == FALSE

\* processes.is_empty()
EmptyList(k) == k = 0

\* parse_procfile(procfile_path)?, then the bail on an empty list.
ParseProcfile ==
    /\ pc = "parse"
    /\ \E readOk \in BOOLEAN :
        IF ~readOk \/ EmptyList(n)
        THEN Goto("returned", "err")
        ELSE Goto("spawn", result)
    /\ UNCHANGED <<n, funv, webv, outv, warnings, late, i, child, reaped, reader,
                   handler, running, allDone, termCount, killCount, elapsed>>

\* use_colors(): asks the terminal at every call.
use_colors == tty

\* One iteration of the spawn loop: the web rule, the launch message
\* (get_color, get_reset), then spawn_process; the `?` returns the error at
\* once, `children` is dropped.
Spawn ==
    /\ pc = "spawn"
    /\ colorUsed' = colorUsed \cup {use_colors}
    /\ rewritten' = IF procNames[i] = WebName THEN rewritten \cup {i}
                    ELSE rewritten
    /\ \E ok \in BOOLEAN :
        IF ok
        THEN /\ child' = [child EXCEPT ![i] = "alive"]
             /\ IF i = n
                THEN Goto("register", result) /\ i' = 1
                ELSE Goto("spawn", result) /\ i' = i + 1
        ELSE /\ Goto("returned", "err")
             /\ UNCHANGED <<child, i>>
    /\ UNCHANGED <<n, funv, procNames, tty, colorsEnabled, written, pipe, emitted, warnings, late,
                   reaped, reader, handler, running, allDone, termCount,
                   killCount, elapsed>>

Register_AbortOnFailure ==
    /\ pc = "register"
    /\ \E ok \in BOOLEAN :
        /\ handler' = IF ok THEN "registered" ELSE "failed"
        /\ warnings' = warnings
        /\ IF ok THEN Goto("readers", result) ELSE Goto("returned", "err")
    /\ running' = TRUE
    /\ i' = 1
    /\ colorsEnabled' = {use_colors}
    /\ UNCHANGED <<n, funv, webv, tty, colorUsed, written, pipe, emitted, late, child,
                   reaped, reader, allDone, termCount, killCount, elapsed>>

\* running = AtomicBool::new(true); ctrlc::set_handler; on Err only
\* ui::warn("Could not set signal handler"); then colors_enabled is taken.
Register ==
    /\ pc = "register"
    /\ \E ok \in BOOLEAN :
        /\ handler' = IF ok THEN "registered" ELSE "failed"
        /\ warnings' = IF ok THEN warnings ELSE warnings + 1
    /\ running' = TRUE
    /\ Goto("readers", result)
    /\ i' = 1
    /\ colorsEnabled' = {use_colors}
    /\ UNCHANGED <<n, funv, webv, tty, colorUsed, written, pipe, emitted, late, child,
                   reaped, reader, allDone, termCount, killCount, elapsed>>

\* One iteration of the map over children: both pipes are Some (Stdio::piped),
\* one reader thread is spawned for each.
StartReaders ==
    /\ pc = "readers"
    /\ reader' = [reader EXCEPT ![i] = [s \in Streams |-> "running"]]
    /\ IF i = n
       THEN Goto("loop", result) /\ i' = 1
       ELSE Goto("readers", result) /\ i' = i + 1
    /\ UNCHANGED <<n, funv, webv, outv, warnings, late, child, reaped, handler, running, allDone, termCount,
                   killCount, elapsed>>

\* Top of the control loop: the flag is read before any liveness poll.
LoopTop ==
    /\ pc = "loop"
    /\ IF ~running
       THEN /\ Goto("gs_term", result)
            /\ UNCHANGED allDone
       ELSE /\ Goto("poll", result)
            /\ allDone' = TRUE
    /\ i' = 1
    /\ UNCHANGED <<n, funv, webv, outv, warnings, late, child, reaped, reader, handler, running, termCount,
                   killCount, elapsed>>

\* The results Child::try_wait can give for child c: Ok(Some(status)) reaps
\* an exited child (or repeats the cached status), Ok(None) says it is alive,
\* Err says the child no longer exists and could not be reaped.  Both callers
\* bind the status to `_`; the model draws it with the result and, like the
\* program, keeps no copy of it.
TryWait(c) ==
    IF reaped[c] THEN [kind : {"some"}, status : ExitStatuses]
    ELSE IF child[c] = "alive" THEN {[kind |-> "none", status |-> "zero"]}
    ELSE [kind : {"some"}, status : ExitStatuses]
             \cup {[kind |-> "err", status |-> "zero"]}

IsDone_AlwaysDone(outcome) == TRUE

\* The match on try_wait: Ok(Some(_)) and Err(_) count as done, Ok(None) not.
IsDone(outcome) == outcome.kind # "none"

\* One iteration of a poll pass over the children.
PollOne(outcome) ==
    /\ reaped' = [reaped EXCEPT ![i] = reaped[i] \/ outcome.kind = "some"]
    /\ allDone' = (allDone /\ IsDone(outcome))

\* Liveness pass of the control loop; all_done breaks, otherwise sleep 100 ms.
Poll ==
    /\ pc = "poll"
    /\ \E outcome \in TryWait(i) :
        /\ PollOne(outcome)
        /\ IF i < n
           THEN Goto("poll", result) /\ i' = i + 1
           ELSE /\ i' = 1
                /\ IF allDone' THEN Goto("join", result) ELSE Goto("loop", result)
    /\ UNCHANGED <<n, funv, webv, outv, warnings, late, child, reader, handler, running, termCount, killCount,
                   elapsed>>

TermLoopEnds_AfterFirst(k) == TRUE

\* for (child, _, _) in children.iter_mut(): the pass ends after the last child.
TermLoopEnds(k) == k = n

\* terminate_process on every child, cached status or not: libc::kill(pid, SIGTERM).
GsTerminate ==
    /\ pc = "gs_term"
    /\ termCount' = [termCount EXCEPT ![i] = @ + 1]
    /\ IF TermLoopEnds(i)
       THEN Goto("gs_clock", result) /\ i' = 1
       ELSE Goto("gs_term", result) /\ i' = i + 1
    /\ UNCHANGED <<n, funv, webv, outv, warnings, late, child, reaped, reader, handler, running, allDone,
                   killCount, elapsed>>

\* start = Instant::now(); the first liveness pass follows.
GsStartClock ==
    /\ pc = "gs_clock"
    /\ elapsed' = 0
    /\ allDone' = TRUE
    /\ Goto("gs_poll", result)
    /\ UNCHANGED <<n, funv, webv, outv, warnings, late, i, child, reaped, reader, handler, running, termCount,
                   killCount>>

AfterGsPass_KillAnyway(done) == IF done THEN "gs_kill" ELSE "gs_timeout"

\* if all_done { return; } else the timeout check follows.
AfterGsPass(done) == IF done THEN "join" ELSE "gs_timeout"

\* Liveness pass of graceful_shutdown.
GsPoll ==
    /\ pc = "gs_poll"
    /\ \E outcome \in TryWait(i) :
        /\ PollOne(outcome)
        /\ IF i < n
           THEN Goto("gs_poll", result) /\ i' = i + 1
           ELSE Goto(AfterGsPass(allDone'), result) /\ i' = 1
    /\ UNCHANGED <<n, funv, webv, outv, warnings, late, child, reader, handler, running, termCount, killCount,
                   elapsed>>

TimedOut_Never(e) == FALSE

\* start.elapsed() >= SHUTDOWN_TIMEOUT
TimedOut(e) == e >= SHUTDOWN_TIMEOUT

AfterGraceSleep_OuterLoop == "loop"

\* thread::sleep(50 ms), then the next pass of the loop in graceful_shutdown.
AfterGraceSleep == "gs_poll"

\* The timeout check of graceful_shutdown.
GsTimeout ==
    /\ pc = "gs_timeout"
    /\ IF TimedOut(elapsed)
       THEN /\ Goto("gs_kill", result)
            /\ UNCHANGED allDone
       ELSE /\ Goto(AfterGraceSleep, result)
            /\ allDone' = TRUE
    /\ i' = 1
    /\ UNCHANGED <<n, funv, webv, outv, warnings, late, child, reaped, reader, handler, running, termCount,
                   killCount, elapsed>>

KillLoopEnds_AfterFirst(k) == TRUE

\* for (child, _, _) in children.iter_mut(): the pass ends after the last child.
KillLoopEnds(k) == k = n

\* child.kill().ok() on every child; Child::kill signals only a handle with no
\* cached exit status.  graceful_shutdown then returns.
GsKill ==
    /\ pc = "gs_kill"
    /\ killCount' = [killCount EXCEPT ![i] = IF reaped[i] THEN @ ELSE @ + 1]
    /\ IF KillLoopEnds(i)
       THEN Goto("join", result) /\ i' = 1
       ELSE Goto("gs_kill", result) /\ i' = i + 1
    /\ UNCHANGED <<n, funv, webv, outv, warnings, late, child, reaped, reader, handler, running, allDone,
                   termCount, elapsed>>

RunResult_ErrAfterKill ==
    IF \E c \in Procs : killCount[c] > 0 THEN "err" ELSE "ok"

\* The value after the join loop: Ok(()).
RunResult == "ok"

JoinedHandles_StdoutOnly == {"stdout"}

\* The handles of one child the join loop joins: stdout_handle, stderr_handle.
JoinedHandles == Streams

\* The handle of child c the join loop is blocked on, stdout first.
NextJoin(c) ==
    IF "stdout" \in JoinedHandles /\ reader[c]["stdout"] # "joined" THEN "stdout"
    ELSE IF "stderr" \in JoinedHandles /\ reader[c]["stderr"] # "joined" THEN "stderr"
    ELSE "none"

\* h.join().ok(): blocks until the reader thread has ended.  After the last
\* handle, Ok(()).
Join ==
    /\ pc = "join"
    /\ LET s == NextJoin(i) IN
        IF s # "none"
        THEN /\ reader[i][s] = "ended"
             /\ reader' = [reader EXCEPT ![i][s] = "joined"]
             /\ Goto("join", result)
             /\ UNCHANGED i
        ELSE /\ UNCHANGED reader
             /\ IF i < n
                THEN Goto("join", result) /\ i' = i + 1
                ELSE Goto("returned", RunResult) /\ UNCHANGED i
    /\ UNCHANGED <<n, funv, webv, outv, warnings, late, child, reaped, handler, running, allDone, termCount,
                   killCount, elapsed>>

Supervisor ==
    \/ ParseProcfile
    \/ Spawn
    \/ Register
    \/ StartReaders
    \/ LoopTop
    \/ Poll
    \/ GsTerminate
    \/ GsStartClock
    \/ GsPoll
    \/ GsTimeout
    \/ GsKill
    \/ Join

\* A child exits: on its own, in answer to SIGTERM, or killed by SIGKILL.
ChildExit(c) ==
    /\ child[c] = "alive"
    /\ child' = [child EXCEPT ![c] = "exited"]
    /\ UNCHANGED <<n, funv, webv, outv, warnings, late, pc, i, reaped, reader, handler, running, allDone,
                   termCount, killCount, elapsed, result, visited>>

\* reader.lines() reaches end-of-stream: the owning process has exited and
\* the pipe holds nothing more.
ReaderEof(c, s) ==
    /\ reader[c][s] = "running"
    /\ Exited(c)
    /\ pipe[c][s] = <<>>
    /\ reader' = [reader EXCEPT ![c][s] = "ended"]
    /\ UNCHANGED <<n, funv, webv, outv, warnings, late, pc, i, child, reaped, handler, running, allDone,
                   termCount, killCount, elapsed, result, visited>>

ReaderError_EndsSibling(c, s) ==
    /\ reader[c][s] = "running"
    /\ reader' = [reader EXCEPT ![c] = [t \in Streams |->
                     IF reader[c][t] = "running" THEN "ended" ELSE reader[c][t]]]
    /\ UNCHANGED <<n, funv, webv, outv, warnings, late, pc, i, child, reaped, handler, running,
                   allDone, termCount, killCount, elapsed, result, visited>>

\* reader.lines() yields Err: map_while(Result::ok) ends the thread.
ReaderError(c, s) ==
    /\ reader[c][s] = "running"
    /\ reader' = [reader EXCEPT ![c][s] = "ended"]
    /\ UNCHANGED <<n, funv, webv, outv, warnings, late, pc, i, child, reaped, handler, running, allDone,
                   termCount, killCount, elapsed, result, visited>>

HandlerStore_Toggle == ~running

\* The value the handler closure stores: r.store(false, SeqCst).
HandlerStore == FALSE

Interrupt_KillsOnSecond ==
    /\ handler = "registered"
    /\ pc # "returned"
    /\ running' = FALSE
    /\ late' = (late \/ ~running)
    /\ killCount' = [c \in Procs |->
                        IF ~running /\ c \in Run /\ ~reaped[c] /\ killCount[c] = 0
                        THEN 1 ELSE killCount[c]]
    /\ UNCHANGED <<n, funv, webv, outv, warnings, pc, i, child, reaped, reader, handler, allDone,
                   termCount, elapsed, result, visited>>

\* The handler closure runs, once registered, at every interrupt.
Interrupt ==
    /\ handler = "registered"
    /\ pc # "returned"
    /\ running' = HandlerStore
    /\ late' = (late \/ ~running)
    /\ UNCHANGED <<n, funv, webv, outv, warnings, pc, i, child, reaped, reader, handler, allDone,
                   termCount, killCount, elapsed, result, visited>>

\* Time passes while graceful_shutdown waits; the model stops counting at the
\* timeout.
Tick ==
    /\ pc \in {"gs_poll", "gs_timeout"}
    /\ elapsed < SHUTDOWN_TIMEOUT
    /\ elapsed' = elapsed + 1
    /\ UNCHANGED <<n, funv, webv, outv, warnings, late, pc, i, child, reaped, reader, handler, running, allDone,
                   termCount, killCount, result, visited>>

Next ==
    \/ Supervisor
    \/ \E c \in Run : ChildExit(c)
    \/ \E c \in Run : \E s \in Streams : ReaderEof(c, s)
    \/ \E c \in Run : \E s \in Streams : ReaderError(c, s)
    \/ Interrupt
    \/ Tick

Spec == Init /\ [][Next]_vars

\* Lines written so far by all children of the run.
TotalWritten ==
    Cardinality({x \in Procs \X Streams \X (1..MaxLines) :
                    x[3] <= Len(written[x[1]][x[2]])})

\* A live child writes one more line to one of its pipes; a line without
\* newline is the last thing it writes there.  With the read end closed (the
\* reader thread is over, or the run has returned and dropped the handles)
\* the write fails (EPIPE) and nothing enters the pipe.
ChildWrite(c, s, k) ==
    /\ child[c] = "alive"
    /\ pc # "returned"
    /\ reader[c][s] \in {"none", "running"}
    /\ TotalWritten < MaxLines
    /\ IF written[c][s] = <<>> THEN TRUE
       ELSE written[c][s][Len(written[c][s])] # "partial"
    /\ written' = [written EXCEPT ![c][s] = Append(@, k)]
    /\ pipe' = [pipe EXCEPT ![c][s] = Append(@, Len(written[c][s]) + 1)]
    /\ UNCHANGED <<n, funv, webv, tty, colorsEnabled, colorUsed, emitted, warnings, late,
                   pc, i, child, reaped, reader, handler, running, allDone,
                   termCount, killCount, elapsed, result, visited>>

PipeTake_Newest(q) == [line |-> q[Len(q)], rest |-> SubSeq(q, 1, Len(q) - 1)]

\* BufReader over the pipe: the next line is the oldest one in it.
PipeTake(q) == [line |-> Head(q), rest |-> Tail(q)]

\* lines() can yield the next line: a complete one at once, one without
\* newline only at end-of-stream.
CanRead(c, s) ==
    /\ reader[c][s] = "running"
    /\ pipe[c][s] # <<>>
    /\ written[c][s][PipeTake(pipe[c][s]).line] = "partial" => Exited(c)

\* One iteration of `for line in reader.lines().map_while(Result::ok)`:
\* println!/eprintln! of the tagged line, with the colour taken at thread
\* creation from colors_enabled.
ReaderLine(c, s) ==
    /\ CanRead(c, s)
    /\ LET t == PipeTake(pipe[c][s]) IN
        /\ written[c][s][t.line] # "bad"
        /\ pipe' = [pipe EXCEPT ![c][s] = t.rest]
        /\ emitted' = [emitted EXCEPT ![c][s] = Append(@, t.line)]
    /\ colorUsed' = colorUsed \cup colorsEnabled
    /\ UNCHANGED <<n, funv, webv, tty, colorsEnabled, written, warnings, late, pc, i,
                   child, reaped, reader, handler, running, allDone,
                   termCount, killCount, elapsed, result, visited>>

\* lines() yields Err(InvalidData) for a line that is not valid UTF-8:
\* map_while(Result::ok) ends the loop, the thread returns, the BufReader
\* and with it the read end of the pipe are dropped.
ReaderInvalid(c, s) ==
    /\ CanRead(c, s)
    /\ LET t == PipeTake(pipe[c][s]) IN
        /\ written[c][s][t.line] = "bad"
        /\ pipe' = [pipe EXCEPT ![c][s] = t.rest]
    /\ reader' = [reader EXCEPT ![c][s] = "ended"]
    /\ UNCHANGED <<n, funv, webv, tty, colorsEnabled, colorUsed, written, emitted,
                   warnings, late, pc, i, child, reaped, handler, running,
                   allDone, termCount, killCount, elapsed, result, visited>>

\* The supervisor's stdout becomes, or stops being, a terminal, at a time
\* when the run has yet to ask (the last use_colors() call is at dev.rs:175).
TtyChange ==
    /\ pc \in {"spawn", "register"}
    /\ tty' = ~tty
    /\ UNCHANGED <<n, funv, webv, colorsEnabled, colorUsed, written, pipe, emitted,
                   warnings, late, pc, i, child, reaped, reader, handler,
                   running, allDone, termCount, killCount, elapsed, result,
                   visited>>

\* The uninterrupted run with its output: children write and exit on their
\* own, readers print, the terminal status can change.
OutInit == Start(BOOLEAN) /\ CommandsGiven /\ NoText /\ OneWeb

OutNext ==
    \/ ParseProcfile
    \/ Spawn
    \/ Register
    \/ StartReaders
    \/ LoopTop
    \/ Poll
    \/ Join
    \/ \E c \in Run : ChildExit(c)
    \/ \E c \in Run : \E s \in Streams : ReaderEof(c, s)
    \/ \E c \in Run : \E s \in Streams : \E k \in LineKinds : ChildWrite(c, s, k)
    \/ \E c \in Run : \E s \in Streams : ReaderLine(c, s)
    \/ \E c \in Run : \E s \in Streams : ReaderInvalid(c, s)
    \/ TtyChange

OutSpec == OutInit /\ [][OutNext]_vars

\* Scheduling: the main thread runs when it can; time passes; SIGKILL cannot be
\* ignored; a blocked pipe read returns once the pipe is at end-of-stream.
Fairness ==
    /\ WF_vars(Supervisor)
    /\ WF_vars(Tick)
    /\ \A c \in Procs : WF_vars(killCount[c] > 0 /\ ChildExit(c))
    /\ \A c \in Procs : \A s \in Streams : WF_vars(ReaderEof(c, s))

FairSpec == Spec /\ Fairness

(***************************************************************************)
(* The web rule of the spawn loop: replace_port_in_command.  Strings are   *)
(* sequences of one-character strings; indices are Rust's, from 0.         *)
(***************************************************************************)

Digits == {"0", "1", "2", "3", "4", "5", "6", "7", "8", "9"}

\* char::is_ascii_digit
is_ascii_digit(ch) == ch \in Digits

DigitChar == <<"0", "1", "2", "3", "4", "5", "6", "7", "8", "9">>

\* u16::to_string: the decimal digits, most significant first.
RECURSIVE to_string(_)
to_string(p) ==
    IF p < 10 THEN <<DigitChar[p + 1]>>
    ELSE to_string(p \div 10) \o <<DigitChar[(p % 10) + 1]>>

Patterns_ShortFirst ==
    << <<"-", "p">>,
       <<"-", "p", " ">>,
       <<"-", "p", "=">>,
       <<"-", "-", "p", "o", "r", "t", " ">>,
       <<"-", "-", "p", "o", "r", "t", "=">> >>

\* The patterns, in the order the for loop tries them.
Patterns ==
    << <<"-", "-", "p", "o", "r", "t", "=">>,
       <<"-", "-", "p", "o", "r", "t", " ">>,
       <<"-", "p", "=">>,
       <<"-", "p", " ">>,
       <<"-", "p">> >>

\* The prefix_len given with a pattern.
PrefixLen(pattern) == Len(pattern)

\* str::find: byte offset of the first occurrence, -1 for None.
Find(cmd, pattern) ==
    LET at == {k \in 0..(Len(cmd) - Len(pattern)) :
                  SubSeq(cmd, k + 1, k + Len(pattern)) = pattern}
    IN  IF at = {} THEN -1
        ELSE CHOOSE k \in at : \A j \in at : k <= j

DigitsEnd_FirstDigit(cmd, start) == start + 1

\* `end`: offset of the first non-digit at or after start, else the length.
DigitsEnd(cmd, start) ==
    LET nd == {j \in start..(Len(cmd) - 1) : ~is_ascii_digit(cmd[j + 1])}
    IN  IF nd = {} THEN Len(cmd)
        ELSE CHOOSE j \in nd : \A k \in nd : j <= k

None == [some |-> FALSE, value |-> <<>>]
Some(v) == [some |-> TRUE, value |-> v]

replace_range_Insert(cmd, start, end, port_str) ==
    SubSeq(cmd, 1, start) \o port_str \o SubSeq(cmd, start + 1, Len(cmd))

\* String::replace_range(start..end, port_str)
replace_range(cmd, start, end, port_str) ==
    SubSeq(cmd, 1, start) \o port_str \o SubSeq(cmd, end + 1, Len(cmd))

try_replace_port(cmd, pattern, prefix_len, port_str) ==
    LET idx == Find(cmd, pattern)
        start == idx + prefix_len
        end == DigitsEnd(cmd, start)
    IN  IF idx = -1 THEN None
        ELSE IF /\ pattern = <<"-", "p">>
                /\ IF start >= Len(cmd) THEN TRUE
                   ELSE ~is_ascii_digit(cmd[start + 1])
        THEN None
        ELSE IF start = end THEN None
        ELSE Some(replace_range(cmd, start, end, port_str))

NoMatch_AppendsFlag(cmd, port_str) == cmd \o <<" ", "-", "p", " ">> \o port_str

\* The fall-through after the loop: command.to_string().
NoMatch(cmd, port_str) == cmd

\* The for loop returns the first Some; with none the command is returned
\* as it is.
replace_port_in_command(cmd, p) ==
    LET port_str == to_string(p)
        try(k) == try_replace_port(cmd, Patterns[k], PrefixLen(Patterns[k]),
                                   port_str)
        hits == {k \in 1..Len(Patterns) : try(k).some}
    IN  IF hits = {} THEN NoMatch(cmd, port_str)
        ELSE try(CHOOSE k \in hits : \A j \in hits : k <= j).value

\* Commands of the inputs: flags, each with a value, joined by single spaces.
Flags == {Patterns[k] : k \in 1..Len(Patterns)} \cup {<<"-", "b", " ">>}
Values == {<<>>, <<"3">>, <<"3", "0">>, <<"x", "4">>}
Parts == {f \o v : f \in Flags, v \in Values}

RECURSIVE Joined(_)
Joined(ps) ==
    IF ps = <<>> THEN <<>>
    ELSE IF Len(ps) = 1 THEN ps[1]
    ELSE ps[1] \o <<" ">> \o Joined(Tail(ps))

Commands ==
    {Joined(ps) : ps \in UNION {[1..m -> Parts] : m \in 0..MaxParts}}

Names == {WebName, OtherName}
Ports == {0, 7, 4000}

\* One Procfile entry about to be spawned.
PortInit ==
    /\ Start({TRUE})
    /\ OneWeb
    /\ NoText
    /\ n = 1
    /\ procName \in Names
    /\ command \in Commands
    /\ port \in Ports
    /\ spawnCommand = <<>>
    /\ prepared = FALSE
    /\ port2 = 0
    /\ again = <<>>
    /\ preparedAgain = FALSE

\* if name == "web" { command = replace_port_in_command(&command, port); }
PrepareCommand ==
    /\ ~prepared
    /\ spawnCommand' = IF procName = WebName
                       THEN replace_port_in_command(command, port)
                       ELSE command
    /\ prepared' = TRUE
    /\ UNCHANGED <<supv, outv, webv, parsev, wrapv, procName, command, port, port2, again,
                   preparedAgain>>

\* replace_port_in_command applied to its own result, with any port.
PrepareAgain ==
    /\ prepared /\ ~preparedAgain
    /\ procName = WebName
    /\ \E q \in Ports :
        /\ port2' = q
        /\ again' = replace_port_in_command(spawnCommand, q)
    /\ preparedAgain' = TRUE
    /\ UNCHANGED <<supv, outv, webv, parsev, wrapv, procName, command, port, spawnCommand,
                   prepared>>

PortNext == PrepareCommand \/ PrepareAgain

PortSpec == PortInit /\ [][PortNext]_vars

(***************************************************************************)
(* parse_procfile_content.  A text is a sequence of one-character strings. *)
(***************************************************************************)

\* char::is_whitespace, for the characters of the inputs.
is_whitespace(ch) == ch \in {" ", "\t", "\n", "\r"}

RECURSIVE trim_start(_)
trim_start(t) ==
    IF t = <<>> THEN <<>>
    ELSE IF is_whitespace(Head(t)) THEN trim_start(Tail(t))
    ELSE t

RECURSIVE trim_end(_)
trim_end(t) ==
    IF t = <<>> THEN <<>>
    ELSE IF is_whitespace(t[Len(t)]) THEN trim_end(SubSeq(t, 1, Len(t) - 1))
    ELSE t

\* str::trim
trim(t) == trim_end(trim_start(t))

\* str::lines: the pieces between line feeds; a final piece that is empty is
\* not a line.  (A carriage return before the line feed, which lines() also
\* drops, is whitespace to the trim that follows.)
RECURSIVE lines(_)
lines(text) ==
    IF text = <<>> THEN <<>>
    ELSE LET nl == {k \in 1..Len(text) : text[k] = "\n"}
         IN  IF nl = {} THEN <<text>>
             ELSE LET k == CHOOSE j \in nl : \A m \in nl : j <= m
                  IN  <<SubSeq(text, 1, k - 1)>>
                         \o lines(SubSeq(text, k + 1, Len(text)))

split_once_Last(t) ==
    LET at == {k \in 1..Len(t) : t[k] = ":"}
    IN  IF at = {} THEN [some |-> FALSE, before |-> <<>>, after |-> <<>>]
        ELSE LET k == CHOOSE j \in at : \A m \in at : j >= m
             IN  [some |-> TRUE, before |-> SubSeq(t, 1, k - 1),
                  after |-> SubSeq(t, k + 1, Len(t))]

\* line.split_once(':'): split at the first colon.
split_once(t) ==
    LET at == {k \in 1..Len(t) : t[k] = ":"}
    IN  IF at = {} THEN [some |-> FALSE, before |-> <<>>, after |-> <<>>]
        ELSE LET k == CHOOSE j \in at : \A m \in at : j <= m
             IN  [some |-> TRUE, before |-> SubSeq(t, 1, k - 1),
                  after |-> SubSeq(t, k + 1, Len(t))]

\* char::is_ascii_alphanumeric
AsciiAlphanumeric ==
    {"A", "B", "C", "D", "E", "F", "G", "H", "I", "J", "K", "L", "M",
     "N", "O", "P", "Q", "R", "S", "T", "U", "V", "W", "X", "Y", "Z",
     "a", "b", "c", "d", "e", "f", "g", "h", "i", "j", "k", "l", "m",
     "n", "o", "p", "q", "r", "s", "t", "u", "v", "w", "x", "y", "z",
     "0", "1", "2", "3", "4", "5", "6", "7", "8", "9"}

\* is_valid_process_name
is_valid_process_name(name) ==
    /\ name # <<>>
    /\ \A k \in 1..Len(name) :
         name[k] \in AsciiAlphanumeric \/ name[k] = "_" \/ name[k] = "-"

EntryOf_CommandUntrimmed(sp) == <<trim(sp.before), sp.after>>

\* name.trim().to_string(), command.trim().to_string()
EntryOf(sp) == <<trim(sp.before), trim(sp.after)>>

\* The body of the for loop: what one line adds to `processes`.
ParseLine(raw) ==
    LET line == trim(raw)
        sp == split_once(line)
        entry == EntryOf(sp)
    IN  IF line = <<>> THEN <<>>
        ELSE IF line[1] = "#" THEN <<>>
        ELSE IF ~sp.some THEN <<>>
        ELSE IF /\ entry[1] # <<>>
                /\ entry[2] # <<>>
                /\ is_valid_process_name(entry[1])
        THEN <<entry>>
        ELSE <<>>

RECURSIVE ParseLines(_)
ParseLines(ls) ==
    IF ls = <<>> THEN <<>>
    ELSE ParseLine(Head(ls)) \o ParseLines(Tail(ls))

parse_procfile_content(text) == ParseLines(lines(text))

\* Lines of the input texts.
RawLines ==
    {<<"w", "e", "b", ":", " ", "x">>,
     <<" ", " ", "w", "e", "b", " ", ":", " ", " ", "x", " ", "y", " ", " ">>,
     <<"#", " ", "n", "o", "t", "e">>,
     <<>>,
     <<"w", "e", "b">>,
     <<":", " ", "x">>,
     <<"w", "e", "b", ":">>,
     <<"a", " ", "b", ":", " ", "x">>,
     <<"w", "-", "1", "_", "a", ":", "x", ":", "y">>,
     <<" ", "#", "w", ":", " ", "x">>,
     <<"c", "s", "s", ":", "\t", "#", "x">>}

RECURSIVE JoinLines(_)
JoinLines(ls) ==
    IF ls = <<>> THEN <<>>
    ELSE IF Len(ls) = 1 THEN ls[1]
    ELSE ls[1] \o <<"\n">> \o JoinLines(Tail(ls))

Texts ==
    {JoinLines(ls) : ls \in UNION {[1..m -> RawLines] : m \in 0..MaxFileLines}}

\* A list written back as text: one "name: command" line for each entry.
RECURSIVE Serialize(_)
Serialize(list) ==
    IF list = <<>> THEN <<>>
    ELSE Head(list)[1] \o <<":", " ">> \o Head(list)[2] \o <<"\n">>
            \o Serialize(Tail(list))

\* One Procfile text about to be parsed.
ParseInit ==
    /\ Start({TRUE})
    /\ n = 1
    /\ command_string = <<>>
    /\ optOut = FALSE
    /\ hasCtx = TRUE
    /\ wrapResult = <<>>
    /\ wrapDone = FALSE
    /\ CommandsGiven
    /\ OneWeb
    /\ content \in Texts
    /\ processes = <<>>
    /\ parsed = FALSE
    /\ processes2 = <<>>
    /\ reparsed = FALSE

ParseContent ==
    /\ ~parsed
    /\ processes' = parse_procfile_content(content)
    /\ parsed' = TRUE
    /\ UNCHANGED <<supv, outv, webv, portv, wrapv, content, processes2,
                   reparsed>>

\* parse_procfile_content applied to the text written back from its result.
ParseAgain ==
    /\ parsed /\ ~reparsed
    /\ processes2' = parse_procfile_content(Serialize(processes))
    /\ reparsed' = TRUE
    /\ UNCHANGED <<supv, outv, webv, portv, wrapv, content, processes,
                   parsed>>

ParseNext == ParseContent \/ ParseAgain

ParseSpec == ParseInit /\ [][ParseNext]_vars

(***************************************************************************)
(* wrap_procfile_command, src/src/cli/bundler.rs.                          *)
(***************************************************************************)

\* WRAPPABLE_COMMANDS
WRAPPABLE_COMMANDS ==
    {<<"r", "a", "i", "l", "s">>,
     <<"r", "a", "k", "e">>,
     <<"r", "u", "b", "y">>,
     <<"r", "s", "p", "e", "c">>,
     <<"s", "i", "d", "e", "k", "i", "q">>,
     <<"p", "u", "m", "a">>,
     <<"s", "p", "r", "i", "n", "g">>,
     <<"f", "o", "r", "e", "m", "a", "n">>}

\* str::split_whitespace: the maximal runs of characters that are not
\* whitespace, in order.
RECURSIVE split_whitespace(_)
split_whitespace(t) ==
    LET u == trim_start(t)
        ws == {k \in 1..Len(u) : is_whitespace(u[k])}
    IN  IF u = <<>> THEN <<>>
        ELSE IF ws = {} THEN <<u>>
        ELSE LET k == CHOOSE j \in ws : \A m \in ws : j <= m
             IN  <<SubSeq(u, 1, k - 1)>> \o split_whitespace(SubSeq(u, k, Len(u)))

\* tokens.join(" ")
RECURSIVE join(_)
join(tokens) ==
    IF tokens = <<>> THEN <<>>
    ELSE IF Len(tokens) = 1 THEN tokens[1]
    ELSE tokens[1] \o <<" ">> \o join(Tail(tokens))

\* token.contains('=')
contains_eq(token) == \E k \in 1..Len(token) : token[k] = "="

ExecWord == <<"e", "x", "e", "c">>
BundleWord == <<"b", "u", "n", "d", "l", "e">>
BinPrefix == <<"b", "i", "n", "/">>

\* The while loop over KEY=VAL assignments: the index (from 0) it stops at.
RECURSIVE SkipAssignments(_, _)
SkipAssignments(tokens, k) ==
    IF k < Len(tokens) /\ contains_eq(tokens[k + 1])
    THEN SkipAssignments(tokens, k + 1)
    ELSE k

\* cmd_index after the optional "exec".
CmdIndex(tokens) ==
    LET k == SkipAssignments(tokens, 0)
    IN  IF k < Len(tokens) /\ tokens[k + 1] = ExecWord THEN k + 1 ELSE k

starts_with(t, prefix) ==
    Len(t) >= Len(prefix) /\ SubSeq(t, 1, Len(prefix)) = prefix

\* The two format! calls: the tokens joined by single spaces with
\* "bundle exec" put before tokens[cmd_index].
Rewrap(text, tokens, cmd_index) ==
    LET env_prefix == SubSeq(tokens, 1, cmd_index)
        cmd_suffix == SubSeq(tokens, cmd_index + 1, Len(tokens))
        bundle_exec == BundleWord \o <<" ">> \o ExecWord \o <<" ">>
    IN  IF env_prefix = <<>> THEN bundle_exec \o join(cmd_suffix)
        ELSE join(env_prefix) \o <<" ">> \o bundle_exec \o join(cmd_suffix)

wrap_procfile_command(opt_out, has_ctx, text) ==
    LET tokens == split_whitespace(text)
        cmd_index == CmdIndex(tokens)
    IN  IF opt_out THEN text
        ELSE IF ~has_ctx THEN text
        ELSE IF cmd_index >= Len(tokens) THEN text
        ELSE LET actual_command == tokens[cmd_index + 1]
             IN  IF actual_command = BundleWord THEN text
                 ELSE IF starts_with(actual_command, BinPrefix) THEN text
                 ELSE IF actual_command \in WRAPPABLE_COMMANDS
                 THEN Rewrap(text, tokens, cmd_index)
                 ELSE text

\* Words and gaps of the input commands.
Words ==
    {<<"A", "=", "1">>,
     <<"e", "x", "e", "c">>,
     <<"r", "a", "i", "l", "s">>,
     <<"b", "u", "n", "d", "l", "e">>,
     <<"b", "i", "n", "/", "x">>,
     <<"s">>}
Gaps == {<<" ">>, <<" ", " ">>}

RECURSIVE Spaced(_, _)
Spaced(ws, gs) ==
    IF Len(ws) = 1 THEN ws[1]
    ELSE ws[1] \o gs[1] \o Spaced(Tail(ws), Tail(gs))

CommandStrings ==
    UNION {{Spaced(ws, gs) : ws \in [1..m -> Words], gs \in [1..m -> Gaps]} :
              m \in 1..MaxWords}

\* One command about to be wrapped.
WrapInit ==
    /\ Start({TRUE})
    /\ n = 1
    /\ CommandsGiven
    /\ OneWeb
    /\ content = <<>>
    /\ processes = <<>>
    /\ parsed = FALSE
    /\ processes2 = <<>>
    /\ reparsed = FALSE
    /\ command_string \in CommandStrings
    /\ optOut \in BOOLEAN
    /\ hasCtx \in BOOLEAN
    /\ wrapResult = <<>>
    /\ wrapDone = FALSE

WrapCommand ==
    /\ ~wrapDone
    /\ wrapResult' = wrap_procfile_command(optOut, hasCtx, command_string)
    /\ wrapDone' = TRUE
    /\ UNCHANGED <<supv, outv, webv, portv, parsev, command_string, optOut,
                   hasCtx>>

WrapNext == WrapCommand

WrapSpec == WrapInit /\ [][WrapNext]_vars

\* The run over every naming of its entries: parse_procfile_content keeps
\* one entry for each line, whatever names came before.
WebInit ==
    /\ Start({TRUE})
    /\ CommandsGiven
    /\ NoText
    /\ procNames \in [Procs -> Names]
    /\ \A c \in Procs : c > n => procNames[c] = OtherName
    /\ rewritten = {}

WebSpec == WebInit /\ [][Next]_vars

TypeOK ==
    /\ n \in 0..MaxProcs
    /\ pc \in {"parse", "spawn", "register", "readers", "loop", "poll", "gs_term",
               "gs_clock", "gs_poll", "gs_timeout", "gs_kill", "join",
               "returned"}
    /\ i \in Procs
    /\ child \in [Procs -> {"unspawned", "alive", "exited"}]
    /\ reaped \in [Procs -> BOOLEAN]
    /\ reader \in [Procs -> [Streams -> {"none", "running", "ended", "joined"}]]
    /\ handler \in {"none", "registered", "failed"}
    /\ running \in BOOLEAN
    /\ allDone \in BOOLEAN
    /\ termCount \in [Procs -> 0..1]
    /\ killCount \in [Procs -> 0..1]
    /\ elapsed \in 0..SHUTDOWN_TIMEOUT
    /\ result \in {"none", "ok", "err"}
    /\ warnings \in 0..1
    /\ late \in BOOLEAN
    /\ tty \in BOOLEAN
    /\ colorsEnabled \subseteq BOOLEAN /\ Cardinality(colorsEnabled) <= 1
    /\ colorUsed \subseteq BOOLEAN
    /\ \A c \in Procs : \A s \in Streams :
         /\ written[c][s] \in Seq(LineKinds) /\ Len(written[c][s]) <= MaxLines
         /\ pipe[c][s] \in Seq(1..MaxLines)
         /\ emitted[c][s] \in Seq(1..MaxLines)

(***************************************************************************)
(* Claims                                                                  *)
(***************************************************************************)

Spawned == {c \in Procs : child[c] # "unspawned"}
Entered(st) == st \in visited
NoKills == \A c \in Procs : killCount[c] = 0

\* start = Instant::now() has run: the grace-period clock is ticking or has ticked.
ClockStarted ==
    \/ pc \in {"gs_poll", "gs_timeout", "gs_kill"}
    \/ pc \in {"join", "returned"} /\ Entered("ShuttingDownGraceful")

\* C1: when run_with_procfile returns a spawn error, every process spawned
\* before the failing one has been sent a termination request and none of
\* them is still running.
C1_SpawnFailureShutsDownSiblings ==
    (pc = "returned" /\ result = "err") =>
        \A c \in Spawned : termCount[c] >= 1 /\ child[c] # "alive"

\* C2: once the grace-period clock has started or any forced kill has been
\* issued, every child of the run (so every child that was alive when the
\* control loop saw the flag false) has been sent its termination request.
C2_TermBeforeGraceAndKill ==
    (ClockStarted \/ ~NoKills) => \A c \in Run : termCount[c] >= 1

C2_Witness ==
    /\ pc = "gs_poll" /\ i = 1 /\ elapsed = 0
    /\ n = MaxProcs
    /\ \A c \in Run : child[c] = "alive" /\ termCount[c] = 1
    /\ NoKills

\* C3: when a liveness pass of graceful_shutdown finds every child done, the
\* supervisor goes from ShuttingDownGraceful straight to Done, and a run that
\* reached Done without ShuttingDownForced has issued no forced kill.
C3_NoKillWhenAllExitInGrace ==
    /\ [][(pc = "gs_poll" /\ pc' # pc /\ allDone')
            => (SupState' = "Done" /\ \A c \in Procs : killCount'[c] = 0)]_vars
    /\ []((SupState = "Done" /\ ~Entered("ShuttingDownForced")) => NoKills)

C3_Witness ==
    /\ pc = "join"
    /\ Entered("ShuttingDownGraceful") /\ ~Entered("ShuttingDownForced")
    /\ n = MaxProcs
    /\ elapsed < SHUTDOWN_TIMEOUT
    /\ \A c \in Run : child[c] = "exited" /\ termCount[c] = 1
    /\ NoKills

\* C4: no child is ever sent more than one forced kill; a child whose exit was
\* observed (its status is cached) is sent none; and after the forced phase
\* every child whose exit had not been observed when the grace period elapsed
\* (so every child alive at that moment) has been sent exactly one.
C4_ExactlyOneKillForSurvivors ==
    /\ \A c \in Procs : killCount[c] <= 1
    /\ \A c \in Procs : reaped[c] => killCount[c] = 0 /\ child[c] = "exited"
    /\ (SupState = "Done" /\ Entered("ShuttingDownForced")) =>
           \A c \in Run : ~reaped[c] => killCount[c] = 1

C4_Witness ==
    /\ SupState = "Done" /\ Entered("ShuttingDownForced")
    /\ n = MaxProcs
    /\ \E c \in Run : reaped[c] /\ killCount[c] = 0
    /\ \E c \in Run : ~reaped[c] /\ killCount[c] = 1

\* C5: when run_with_procfile has returned, every reader thread that was
\* started has ended and been joined; after an Ok return that is the stdout
\* and the stderr reader of every process.
C5_AllReadersJoined ==
    pc = "returned" =>
        /\ \A c \in Procs : \A s \in Streams : reader[c][s] \in {"none", "joined"}
        /\ result = "ok" => \A c \in Run : \A s \in Streams : reader[c][s] = "joined"

C5_Witness ==
    /\ pc = "returned" /\ result = "ok"
    /\ n = MaxProcs
    /\ Entered("ShuttingDownGraceful")
    /\ \A c \in Run : \A s \in Streams : reader[c][s] = "joined"

SupTransitions ==
    { <<"Starting", "Running">>,
      <<"Starting", "Failed">>,
      <<"Running", "ShuttingDownGraceful">>,
      <<"Running", "Done">>,
      <<"ShuttingDownGraceful", "Done">>,
      <<"ShuttingDownGraceful", "ShuttingDownForced">>,
      <<"ShuttingDownForced", "Done">> }

\* C7: the supervisor state changes only along Running->ShuttingDownGraceful,
\* Running->Done, ShuttingDownGraceful->Done,
\* ShuttingDownGraceful->ShuttingDownForced and ShuttingDownForced->Done
\* (entered from start-up through Running only); in Done no signal is sent
\* and no child is polled any more.
C7_StateMachine ==
    [][/\ SupState' # SupState => <<SupState, SupState'>> \in SupTransitions
       /\ SupState = "Done" =>
            /\ SupState' = "Done"
            /\ termCount' = termCount
            /\ killCount' = killCount
            /\ reaped' = reaped
            /\ pc' \notin {"poll", "gs_poll"}]_vars

C7_Witness ==
    /\ pc = "returned" /\ result = "ok"
    /\ visited = {"Starting", "Running", "ShuttingDownGraceful",
                  "ShuttingDownForced", "Done"}

\* C8: the supervisor enters ShuttingDownGraceful only with the flag false and
\* at least one child still alive; with every child already exited it sends no
\* termination request.
C8_GracefulOnlyWithLiveChild ==
    [][/\ (SupState' = "ShuttingDownGraceful" /\ SupState # "ShuttingDownGraceful")
            => (~running /\ Alive # {})
       /\ (Alive = {} /\ Spawned = Run) => termCount' = termCount]_vars

\* C9: while the flag is true and a child is alive, no termination request and
\* no kill is sent and a supervisor in Running stays in Running, whatever the
\* other children exited with.
C9_RunningUntilAllExitOrInterrupt ==
    [][(running /\ Alive # {}) =>
            /\ termCount' = termCount
            /\ killCount' = killCount
            /\ SupState = "Running" => SupState' = "Running"]_vars

C9_Witness ==
    /\ pc = "loop" /\ running /\ handler = "registered"
    /\ n = MaxProcs
    /\ Alive # {}
    /\ \E c \in Run : reaped[c]
    /\ \A c \in Procs : termCount[c] = 0 /\ killCount[c] = 0

\* C10: in every state in which a child has been spawned, registration of the
\* interrupt handler has already been attempted.
C10_HandlerBeforeChildren ==
    Spawned # {} => handler # "none"

ReadersStarted == \A c \in Run : \A s \in Streams : reader[c][s] # "none"

RunProceedsWithoutHandler ==
    handler = "failed" =>
        /\ warnings = 1
        /\ running
        /\ \A c \in Procs : termCount[c] = 0 /\ killCount[c] = 0
        /\ ~Entered("ShuttingDownGraceful") /\ ~Entered("ShuttingDownForced")
        /\ pc # "readers" => ReadersStarted
        /\ pc = "returned" => result = "ok" /\ \A c \in Run : child[c] = "exited"

\* C11: when registering the handler fails, one warning is emitted and the
\* run goes on: the flag stays true, no child is ever signalled, the
\* supervisor never enters a shutdown state, a reader is started for every
\* pipe of every child, the run is never returned with an error, and once
\* every child has exited on its own the run returns Ok.
C11_RegistrationFailureIsNotFatal ==
    /\ []RunProceedsWithoutHandler
    /\ (handler = "failed" /\ \A c \in Run : child[c] = "exited")
         ~> (pc = "returned" /\ result = "ok")

C11_Witness ==
    /\ handler = "failed"
    /\ pc = "returned" /\ result = "ok"
    /\ n = MaxProcs
    /\ warnings = 1

\* C12: the flag is true until the handler is registered; it changes only
\* from true to false, only in a step of the registered handler that moves
\* neither the main thread nor any reader; once false it stays false.
C12_FlagWrittenOnlyByHandler ==
    /\ [](handler # "registered" => running)
    /\ [][/\ running' # running =>
                /\ running /\ ~running'
                /\ handler = "registered"
                /\ UNCHANGED <<pc, i, reader, allDone, result>>
          /\ ~running => ~running']_vars

C12_Witness ==
    /\ ~running /\ late
    /\ pc = "returned"
    /\ Entered("ShuttingDownGraceful")

\* C13: an interrupt delivered when the flag is already false changes nothing
\* but the record of its arrival: no signal is sent by it, the main thread
\* does not move; and in runs with such interrupts every child is still sent
\* at most one termination request and at most one forced kill, none before
\* the grace period has elapsed.
C13_LaterInterruptsHaveNoEffect ==
    /\ [][(~running /\ Interrupt) =>
            UNCHANGED <<n, funv, webv, pc, i, child, reaped, reader, handler, running,
                        allDone, termCount, killCount, elapsed, result,
                        warnings, visited>>]_vars
    /\ [](late => \A c \in Procs :
                    /\ termCount[c] <= 1
                    /\ killCount[c] <= 1
                    /\ killCount[c] > 0 =>
                         elapsed >= SHUTDOWN_TIMEOUT /\ Entered("ShuttingDownForced"))

C13_Witness ==
    /\ late
    /\ pc = "returned" /\ result = "ok"
    /\ Entered("ShuttingDownForced")
    /\ \E c \in Run : termCount[c] = 1 /\ killCount[c] = 1

\* C14: a run that got past the spawn loop returns Ok, on the natural-exit
\* path and on the interrupt path, with or without forced kills; Err is
\* returned only from the spawn loop.
C14_SuccessAfterShutdown ==
    pc = "returned" =>
        /\ Entered("Running") => result = "ok"
        /\ result = "err" => visited = {"Starting", "Failed"}

C14_Witness ==
    /\ pc = "returned" /\ result = "ok"
    /\ Entered("ShuttingDownForced")
    /\ n = MaxProcs
    /\ \E c \in Run : killCount[c] = 1
    /\ \E c \in Run : reaped[c]

\* C17: a step in which a reader ends (read error or end-of-stream) changes
\* nothing but that reader: every other reader, the main thread's position,
\* the signals sent, the flag and the result are as before.
C17_ReaderEndIsLocal ==
    [][\A c \in Procs : \A s \in Streams :
        (reader[c][s] = "running" /\ reader'[c][s] = "ended") =>
            /\ \A d \in Procs : \A t \in Streams :
                 <<d, t>> # <<c, s>> => reader'[d][t] = reader[d][t]
            /\ UNCHANGED <<pc, i, child, reaped, handler, running, allDone,
                           termCount, killCount, elapsed, result, warnings,
                           visited>>]_vars

C17_Witness ==
    /\ SupState = "Running"
    /\ n = MaxProcs
    /\ \E c \in Run :
         /\ child[c] = "alive"
         /\ reader[c]["stdout"] = "ended"
         /\ reader[c]["stderr"] = "running"
    /\ \A c \in Procs : termCount[c] = 0 /\ killCount[c] = 0

Emitted(c, s) == {emitted[c][s][j] : j \in 1..Len(emitted[c][s])}

\* C15: when run_with_procfile has returned Ok, every line an exited child
\* had written to either of its pipes has been printed.
C15_AllOutputEmittedAtReturn ==
    (pc = "returned" /\ result = "ok") =>
        \A c \in Run : \A s \in Streams :
            Exited(c) => \A k \in 1..Len(written[c][s]) : k \in Emitted(c, s)

\* C16: the lines printed for one pipe are lines the child wrote to that
\* pipe, each at most once, in the order in which they were written.
C16_StreamOrderPreserved ==
    \A c \in Procs : \A s \in Streams :
        LET e == emitted[c][s] IN
        /\ \A j \in 1..Len(e) : e[j] \in 1..Len(written[c][s])
        /\ \A j, k \in 1..Len(e) : j < k => e[j] < e[k]

C16_Witness ==
    /\ n = MaxProcs
    /\ pc = "returned"
    /\ \E c \in Run : \E s \in Streams :
         /\ Len(emitted[c][s]) = MaxLines
         /\ reader[c][s] = "joined"

\* C18: every tagged line of one run, launch messages and output lines, was
\* printed with the same colour decision.
C18_ColourFixedForRun ==
    Cardinality(colorUsed) <= 1

\* The five port patterns in priority order.
Priority ==
    << <<"-", "-", "p", "o", "r", "t", "=">>,
       <<"-", "-", "p", "o", "r", "t", " ">>,
       <<"-", "p", "=">>,
       <<"-", "p", " ">>,
       <<"-", "p">> >>

\* Pattern pat occurs in cmd at offset k (from 0).
OccursAt(cmd, pat, k) ==
    /\ k >= 0
    /\ k + Len(pat) <= Len(cmd)
    /\ SubSeq(cmd, k + 1, k + Len(pat)) = pat

\* Offset of the first occurrence of pat in cmd, -1 if there is none.
FirstOccurrence(cmd, pat) ==
    IF \E k \in 0..Len(cmd) : OccursAt(cmd, pat, k)
    THEN CHOOSE k \in 0..Len(cmd) :
            /\ OccursAt(cmd, pat, k)
            /\ \A j \in 0..(k - 1) : ~OccursAt(cmd, pat, j)
    ELSE -1

\* Length of the maximal run of digits of cmd that starts at offset a.
DigitRun(cmd, a) ==
    CHOOSE m \in 0..(Len(cmd) - a) :
        /\ \A j \in 1..m : cmd[a + j] \in Digits
        /\ a + m < Len(cmd) => cmd[a + m + 1] \notin Digits

\* The first occurrence of pat in cmd is followed by at least one digit.
Matched(cmd, pat) ==
    /\ FirstOccurrence(cmd, pat) # -1
    /\ DigitRun(cmd, FirstOccurrence(cmd, pat) + Len(pat)) >= 1

\* cmd with the digit run at offset a replaced by the decimal port p.
WithPortAt(cmd, a, p) ==
    SubSeq(cmd, 1, a) \o to_string(p)
        \o SubSeq(cmd, a + DigitRun(cmd, a) + 1, Len(cmd))

\* C19: the command of the web entry is rewritten at the first occurrence of
\* the first pattern, in priority order, whose first occurrence is followed
\* by at least one digit (a pattern followed by no digit is passed over);
\* one replacement is made; with no such pattern the command is unchanged.
C19_FirstMatchingPatternWins ==
    (prepared /\ procName = WebName) =>
        LET won == {k \in 1..Len(Priority) : Matched(command, Priority[k])}
        IN  IF won = {} THEN spawnCommand = command
            ELSE LET w == CHOOSE k \in won : \A j \in won : k <= j
                     a == FirstOccurrence(command, Priority[w]) + Len(Priority[w])
                 IN  spawnCommand = WithPortAt(command, a, port)

C19_Witness ==
    /\ prepared /\ procName = WebName
    /\ FirstOccurrence(command, Priority[1]) # -1
    /\ ~Matched(command, Priority[1])
    /\ Matched(command, Priority[4])
    /\ spawnCommand # command
    /\ spawnCommand = WithPortAt(command,
            FirstOccurrence(command, Priority[4]) + Len(Priority[4]), port)

\* C20: a command that was changed is the input with one maximal run of
\* digits, the one right after an occurrence of a pattern, replaced by the
\* decimal port; what is before the run and what is after it is unchanged.
C20_OnlyTheDigitRunChanges ==
    (prepared /\ spawnCommand # command) =>
        /\ procName = WebName
        /\ \E k \in 1..Len(Priority) : \E a \in 0..Len(command) :
            /\ OccursAt(command, Priority[k], a - Len(Priority[k]))
            /\ DigitRun(command, a) >= 1
            /\ spawnCommand = WithPortAt(command, a, port)

C20_Witness ==
    /\ prepared /\ spawnCommand # command
    /\ Len(to_string(port)) = 4
    /\ Len(spawnCommand) = Len(command) + 2
    /\ spawnCommand[Len(spawnCommand)] \notin Digits

\* C25: with an empty parsed list the run goes from parsing straight to an
\* error return: no child is spawned, the handler is not registered, no
\* reader is started.
C25_EmptyListFailsBeforeSpawn ==
    n = 0 =>
        /\ pc \in {"parse", "returned"}
        /\ pc = "returned" => result = "err"
        /\ \A c \in Procs : child[c] = "unspawned"
        /\ handler = "none"
        /\ \A c \in Procs : \A s \in Streams : reader[c][s] = "none"
        /\ visited \subseteq {"Starting", "Failed"}

C25_Witness ==
    /\ n = 0
    /\ pc = "returned" /\ result = "err"
    /\ visited = {"Starting", "Failed"}

\* C26: a termination request goes only to a child whose exit no liveness
\* poll has observed.
C26_NoSignalToReapedChild ==
    [][\A c \in Procs : termCount'[c] > termCount[c] => ~reaped[c]]_vars

\* C27: when the run returns after the control loop, every child has been
\* observed exited by a successful liveness poll or has been sent a forced
\* kill.
C27_ReapedOrKilledAtReturn ==
    (pc = "returned" /\ Entered("Running")) =>
        \A c \in Run : reaped[c] \/ killCount[c] > 0

\* C22: at most one entry of a run has its command port-rewritten, that
\* entry is named web, and no entry with another name is rewritten.
C22_OnlyOneWebEntryRewritten ==
    /\ Cardinality(rewritten) <= 1
    /\ \A c \in rewritten : procNames[c] = WebName

\* No port pattern occurs anywhere in cmd.
NoPattern(cmd) ==
    \A k \in 1..Len(Priority) : FirstOccurrence(cmd, Priority[k]) = -1

\* C21: a web command in which no port pattern occurs is launched as it is,
\* whatever the port.
C21_NoPatternNoChange ==
    (prepared /\ procName = WebName /\ NoPattern(command)) =>
        spawnCommand = command

C21_Witness ==
    /\ prepared /\ procName = WebName
    /\ NoPattern(command)
    /\ Len(command) > Len(<<"-", "b", " ">>)
    /\ spawnCommand = command

\* Some occurrence of some pattern in cmd is immediately followed by a digit.
SomeOccurrenceWithDigits(cmd) ==
    \E k \in 1..Len(Priority) : \E a \in 0..Len(cmd) :
        OccursAt(cmd, Priority[k], a) /\ DigitRun(cmd, a + Len(Priority[k])) >= 1

\* Some digit run right after a pattern occurrence already reads as port p.
AlreadyPort(cmd, p) ==
    \E k \in 1..Len(Priority) : \E a \in 0..Len(cmd) :
        /\ OccursAt(cmd, Priority[k], a)
        /\ LET b == a + Len(Priority[k])
           IN  SubSeq(cmd, b + 1, b + DigitRun(cmd, b)) = to_string(p)

\* C28: a web command with an occurrence, anywhere, of a pattern followed by
\* a digit is changed by the rewriting, unless the digits already are the port.
C28_AnyOccurrenceIsRewritten ==
    (prepared /\ procName = WebName /\ SomeOccurrenceWithDigits(command)) =>
        (spawnCommand # command \/ AlreadyPort(command, port))

\* C29: rewriting the rewritten command with port q gives what rewriting the
\* original command with q gives; twice with the same port equals once.
C29_LastPortWins ==
    preparedAgain =>
        /\ again = replace_port_in_command(command, port2)
        /\ port2 = port => again = spawnCommand

C29_Witness ==
    /\ preparedAgain
    /\ port2 # port
    /\ spawnCommand # command
    /\ again # spawnCommand
    /\ Len(again) # Len(command)

Blank == {" ", "\t", "\n", "\r"}

\* t without the whitespace at its two ends.
Trimmed(t) ==
    LET solid == {k \in 1..Len(t) : t[k] \notin Blank}
    IN  IF solid = {} THEN <<>>
        ELSE LET a == CHOOSE k \in solid : \A j \in solid : k <= j
                 b == CHOOSE k \in solid : \A j \in solid : k >= j
             IN  SubSeq(t, a, b)

\* Position of the first colon of t; 0 if it has none.
FirstColon(t) ==
    IF \E k \in 1..Len(t) : t[k] = ":"
    THEN CHOOSE k \in 1..Len(t) :
            t[k] = ":" /\ \A j \in 1..(k - 1) : t[j] # ":"
    ELSE 0

NameOf(l) ==
    LET t == Trimmed(l) IN Trimmed(SubSeq(t, 1, FirstColon(t) - 1))

CommandTextOf(l) ==
    LET t == Trimmed(l) IN Trimmed(SubSeq(t, FirstColon(t) + 1, Len(t)))

\* The characters of a process name: [A-Za-z0-9_-].
NameChars == AsciiAlphanumeric \cup {"_", "-"}

\* Line l is one that gives an entry.
Retained(l) ==
    LET t == Trimmed(l)
    IN  /\ t # <<>>
        /\ t[1] # "#"
        /\ FirstColon(t) # 0
        /\ NameOf(l) # <<>>
        /\ \A k \in 1..Len(NameOf(l)) : NameOf(l)[k] \in NameChars
        /\ CommandTextOf(l) # <<>>

\* C23: the parsed list has, in file order, exactly one (trimmed name,
\* trimmed command) pair for each retained line of the text; other lines
\* give nothing.
C23_ParseKeepsExactlyValidLines ==
    parsed =>
        LET kept == SelectSeq(lines(content), Retained)
        IN  processes = [j \in 1..Len(kept) |->
                            <<NameOf(kept[j]), CommandTextOf(kept[j])>>]

C23_Witness ==
    /\ parsed
    /\ Len(lines(content)) = MaxFileLines
    /\ Len(processes) = 1
    /\ ~Retained(lines(content)[1])
    /\ FirstColon(Trimmed(lines(content)[1])) # 0
    /\ FirstColon(processes[1][2]) # 0

\* C24: writing the parsed list back as 'name: command' lines and parsing
\* that text gives the same list.
C24_ParseRoundTrip ==
    reparsed => processes2 = processes

C24_Witness ==
    /\ reparsed
    /\ Len(processes) = MaxFileLines
    /\ processes[1] # processes[2]
    /\ Serialize(processes) # content
    /\ processes2 = processes
    /\ \E k \in 1..Len(processes) : FirstColon(processes[k][2]) # 0

BundleExec == <<"b", "u", "n", "d", "l", "e", " ", "e", "x", "e", "c", " ">>

\* Offset k of t is where a word of t starts.
WordStart(t, k) ==
    /\ k < Len(t)
    /\ t[k + 1] \notin Blank
    /\ k > 0 => t[k] \in Blank

\* out is t with "bundle exec " put in at the start of one of its words,
\* every other character as in t.
BundleExecInserted(t, out) ==
    \E k \in 0..Len(t) :
        /\ WordStart(t, k)
        /\ out = SubSeq(t, 1, k) \o BundleExec \o SubSeq(t, k + 1, Len(t))

\* C30: the result of wrap_procfile_command is its argument, or its argument
\* with "bundle exec " inserted at the start of a word and every other
\* character, whitespace included, unchanged.
C30_WrapOnlyInsertsBundleExec ==
    wrapDone =>
        \/ wrapResult = command_string
        \/ BundleExecInserted(command_string, wrapResult)

====
